---------------------------- MODULE Spec2Model ----------------------------
(***************************************************************************)
(* Google Calendar Multi-Sync to Primary (v2.4), src/main.js.              *)
(*                                                                         *)
(* One-way synchronisation of SOURCE_CALENDARS into the target calendar.   *)
(* The state is the target calendar, the stored sync tokens (user          *)
(* properties), and the position of the running mainSyncFunction with its  *)
(* local variables.  The calendar service is the environment: it answers   *)
(* list requests from a fixed change feed per (source, sync token), and    *)
(* any call to it may throw.  An execution may be killed at any point      *)
(* (the host's execution-time limit).                                      *)
(***************************************************************************)
EXTENDS Integers, Sequences, FiniteSets, TLC

(***************************************************************************)
(* Bounds of the model.                                                    *)
(***************************************************************************)
\* sync tokens handed out by the change feed are 1..MaxTok
MaxTok == 2
\* the target calendar holds at most MaxTarget events; an insert beyond it
\* is refused by the service (a write error)
MaxTarget == 4

(***************************************************************************)
(* Values.                                                                 *)
(***************************************************************************)
\* getProperty returns null when no token is stored
NoToken == 0
\* pageToken / nextPageToken undefined
NoPageToken == 0
\* the value of an absent private tag
NoTag == "-"
\* CalendarApp.getCalendarById of a calendar that does not resolve
Null == "null"

\* a word of a title: a leading bracketed group such as "[Work]" (br = TRUE,
\* txt = "Work") or plain text
W(t) == [br |-> FALSE, txt |-> t]
B(t) == [br |-> TRUE, txt |-> t]

(***************************************************************************)
(* Configuration.                                                          *)
(***************************************************************************)
TARGET_CALENDAR_ID == "primary"
INITIAL_SYNC_THROTTLE == 500
INITIAL_SYNC_PAST_DAYS == 7
INITIAL_SYNC_FUTURE_DAYS == 365

\* id, prefix, colorId as configured; name is the display name the calendar
\* service gives for the id (CalendarApp...getName())
SOURCE_CALENDARS ==
  << [id |-> "univ", prefix |-> B("Univ"), colorId |-> "9", name |-> "Univ"],
     [id |-> "work", prefix |-> B("Work"), colorId |-> "5", name |-> "Work Calendar"],
     [id |-> "personal", prefix |-> B("Personal"), colorId |-> "4", name |-> "Personal"] >>

NumSources == Len(SOURCE_CALENDARS)
SourceIdx == 1..NumSources

(***************************************************************************)
(* The change feed of the calendar service (Calendar.Events.list on a      *)
(* source).  A response is a page: items, nextPageToken, nextSyncToken;    *)
(* nextSyncToken comes with the last page only, nextPageToken with every   *)
(* other page.  A page may be empty and still carry a nextPageToken.       *)
(***************************************************************************)
Active(id, summary, description, start) ==
  [id |-> id, status |-> "confirmed", summary |-> summary,
   description |-> description, start |-> start]
Cancelled(id) ==
  [id |-> id, status |-> "cancelled", summary |-> <<>>,
   description |-> "", start |-> [date |-> "", dateTime |-> ""]]

AllDay(d) == [date |-> d, dateTime |-> ""]
Timed(t) == [date |-> "", dateTime |-> t]

\* the token a pass that started from tok ends with
NextTok(tok) == IF tok < MaxTok THEN tok + 1 ELSE MaxTok

\* the item lists of the pages of the feed of source s after token tok
FeedItems(s, tok) ==
  CASE s = 1 /\ tok = NoToken ->
         << << Active("a", <<W("Lunch")>>, "", Timed("t1")) >>,
            << Active("b", <<B("Univ"), W("Exam")>>, "room 1", AllDay("d1")) >>,
            << Active("c", <<>>, "", Timed("t2")) >> >>
    [] s = 1 /\ tok % 2 = 1 ->
         << << Cancelled("a"), Active("b", <<W("Exam")>>, "room 2", AllDay("d1")) >> >>
    [] s = 1 /\ tok # NoToken /\ tok % 2 = 0 ->
         << << Active("a", <<B("Work"), W("Lunch")>>, "", Timed("t1")) >>,
            << Cancelled("c") >> >>
    [] s = 2 /\ tok = NoToken ->
         << << Active("b", <<W("Lunch")>>, "", Timed("t3")), Cancelled("d") >> >>
    [] s = 2 /\ tok % 2 = 1 ->
         << << >>, << Cancelled("b") >> >>
    [] s = 2 /\ tok # NoToken /\ tok % 2 = 0 ->
         << << Active("b", <<W("Lunch")>>, "", Timed("t3")) >> >>
    [] s = 3 /\ tok = NoToken ->
         << << Active("c", <<B("Draft"), W("Gym")>>, "", AllDay("d2")) >> >>
    [] s = 3 /\ tok % 2 = 1 ->
         << << >> >>
    [] OTHER ->
         << << Cancelled("c") >> >>

Feed(s, tok) ==
  LET its == FeedItems(s, tok) IN
  [k \in 1..Len(its) |->
     [items |-> its[k],
      nextPageToken |-> IF k < Len(its) THEN k + 1 ELSE NoPageToken,
      nextSyncToken |-> IF k < Len(its) THEN NoToken ELSE NextTok(tok)]]

\* Calendar.Events.list(calendarId, requestParameters) when it answers
ListPage(s, tok, pageToken) ==
  Feed(s, tok)[IF pageToken = NoPageToken THEN 1 ELSE pageToken]

NoPage == [items |-> <<>>, nextPageToken |-> NoPageToken, nextSyncToken |-> NoToken]


(***************************************************************************)
(* The target calendar: a set of events with distinct ids.  An event made  *)
(* by the script carries the private tag sourceEventId; an event of the    *)
(* calendar's owner carries none.                                          *)
(***************************************************************************)
OwnerEvent ==
  [id |-> 0, tag |-> NoTag, summary |-> <<W("Dentist")>>, description |-> "",
   start |-> Timed("t0"), colorId |-> ""]

\* the id the calendar service gives a new event: one no event of T has
FreshId(T) == CHOOSE i \in 0..Cardinality(T) : \A e \in T : e.id # i

\* a lookup under a key no event carries
FindByTagNone(T, tag) == {}

\* Calendar.Events.list(TARGET_CALENDAR_ID, {privateExtendedProperty: tag})
FindByTag(T, tag) == {e \in T : e.tag = tag}

\* foundEvents.items[0]
FirstOf(found) == CHOOSE e \in found : \A f \in found : e.id <= f.id

\* a rewriting that never removes the prefix the title has
TitleForKeepsOldPrefix(summary, prefix, sourceCalendarName) ==
  LET title == IF summary = <<>> THEN <<W("(No Title)")>> ELSE summary
  IN  IF ~title[1].br \/ title[1].txt # sourceCalendarName
        THEN <<prefix>> \o title
        ELSE title

\* the title of the target event
TitleFor(summary, prefix, sourceCalendarName) ==
  LET title == IF summary = <<>> THEN <<W("(No Title)")>> ELSE summary
      currentPrefixMatch == title[1].br
  IN  IF ~currentPrefixMatch \/ title[1].txt # sourceCalendarName
        THEN <<prefix>> \o (IF currentPrefixMatch THEN Tail(title) ELSE title)
        ELSE title

\* eventStart: the representation the source used
StartFor(start) ==
  IF start.date # "" THEN [date |-> start.date, dateTime |-> ""]
                     ELSE [date |-> "", dateTime |-> start.dateTime]

\* targetEventPayload, with the id the service keeps or gives; location, end
\* and recurrence are copied as description and start are
Payload(sourceEvent, source, id) ==
  [id |-> id,
   tag |-> sourceEvent.id,
   summary |-> TitleFor(sourceEvent.summary, source.prefix, source.name),
   description |-> sourceEvent.description,
   start |-> StartFor(sourceEvent.start),
   colorId |-> source.colorId]

\* Calendar.Events.insert: refused when the calendar is full
InsertFull(T) == Cardinality(T) >= MaxTarget
InsertEvent(T, sourceEvent, source) ==
  IF InsertFull(T) THEN T ELSE T \cup {Payload(sourceEvent, source, FreshId(T))}

\* an update whose payload leaves the private tag out
UpdateEventDropsTag(T, id, sourceEvent, source) ==
  {e \in T : e.id # id} \cup {[Payload(sourceEvent, source, id) EXCEPT !.tag = NoTag]}

\* Calendar.Events.update: the event of that id becomes the payload
UpdateEvent(T, id, sourceEvent, source) ==
  {e \in T : e.id # id} \cup {Payload(sourceEvent, source, id)}

\* a removal with the filter inverted
RemoveEventInverted(T, id) == {e \in T : e.id = id}

\* Calendar.Events.remove
RemoveEvent(T, id) == {e \in T : e.id # id}

\* an upsert that never looks for the mirrored event
CreateAlways(T, sourceEvent, source) == InsertEvent(T, sourceEvent, source)

\* an upsert that looks among the events written for its own source only
CreateOrUpdateEventOwnSource(T, sourceEvent, source) ==
  LET found == {e \in FindByTag(T, sourceEvent.id) : e.colorId = source.colorId} IN
  IF found # {} THEN UpdateEvent(T, FirstOf(found).id, sourceEvent, source)
                ELSE InsertEvent(T, sourceEvent, source)

\* createOrUpdateEvent when the lookup and the write both answer
CreateOrUpdateEvent(T, sourceEvent, source) ==
  LET found == FindByTag(T, sourceEvent.id) IN
  IF found # {} THEN UpdateEvent(T, FirstOf(found).id, sourceEvent, source)
                ELSE InsertEvent(T, sourceEvent, source)

\* deleteTargetEvent when the lookup and the removal both answer
DeleteTargetEvent(T, sourceEvent) ==
  LET found == FindByTag(T, sourceEvent.id) IN
  IF found # {} THEN RemoveEvent(T, FirstOf(found).id) ELSE T

\* the body of the loop over eventPages.items, for one record
ApplyRecord(T, sourceEvent, source) ==
  IF sourceEvent.status = "cancelled"
    THEN DeleteTargetEvent(T, sourceEvent)
    ELSE CreateOrUpdateEvent(T, sourceEvent, source)

\* a call that throws after the service has applied it
ApplyRecordThrowsAfterWrite(T, sourceEvent, source) ==
  ApplyRecord(T, sourceEvent, source)

\* the helper when its lookup or its write throws: the catch block logs (and
\* returns, line 220), and the call that threw has written nothing
ApplyRecordThrows(T, sourceEvent, source) == T

\* what the helper logs from the catch block of the call that threw
ThrowsLog(sourceEvent, lookupOk) ==
  IF sourceEvent.status = "cancelled"
    THEN "Error trying to delete event"
    ELSE IF lookupOk THEN "Error inserting/updating event"
                     ELSE "Error searching for duplicate event"

\* what the helper logs for the record when its calls answer
RecordLog(T, sourceEvent) ==
  LET found == FindByTag(T, sourceEvent.id) IN
  IF sourceEvent.status = "cancelled"
    THEN IF found # {} THEN "Deleted" ELSE "Already deleted"
    ELSE IF found # {} THEN "Event updated"
         ELSE IF InsertFull(T) THEN "Error inserting/updating event"
              ELSE "Event created"

(***************************************************************************)
(* Errors of the calendar service, as the fragments their message holds.   *)
(***************************************************************************)
ExpiredMessage == {"API call to calendar.events.list failed with error",
                   "Sync token is no longer valid"}
GoneMessage == {"Request failed", "410"}
QuotaMessage == {"API call to calendar.events.list failed with error",
                 "Rate Limit Exceeded"}
FetchErrors == {ExpiredMessage, GoneMessage, QuotaMessage}
\* the errors by which the service reports an invalid or expired sync token
InvalidCursorSignals == {ExpiredMessage, GoneMessage}

\* e.message.includes(fragment)
Includes(message, fragment) == fragment \in message

\* a catch block that deletes the token on any error
IsTokenExpiredAlways(message) == TRUE
\* a catch block that tests the phrase only
IsTokenExpiredPhraseOnly(message) ==
  Includes(message, "Sync token is no longer valid")

\* the test of the catch block: the stored token is to be deleted
IsTokenExpired(message) ==
  Includes(message, "Sync token is no longer valid") \/ Includes(message, "410")

\* a missing check of the target calendar
TargetMissingNever(primaryCalendar) == FALSE

\* !primaryCalendar
TargetMissing(primaryCalendar) == primaryCalendar = Null

\* a delay applied in every pass
ThrottleAlways(token) == INITIAL_SYNC_THROTTLE

\* lines 160-162: the ms slept after a record; token is syncToken
Throttle(token) == IF token = NoToken THEN INITIAL_SYNC_THROTTLE ELSE 0

\* a loop that stops one source short
ResetTokensButLast(toks) ==
  [s \in SourceIdx |-> IF s = NumSources THEN toks[s] ELSE NoToken]

\* lines 311-315: deleteProperty for every source
ResetTokens(toks) == [s \in SourceIdx |-> NoToken]

\* while (pageToken), after pageToken = eventPages.nextPageToken
LoopContinues(page) == page.nextPageToken # NoPageToken

\* a pass that stores nothing when it breaks out on an empty page
SavedTokenUnlessEmpty(page) ==
  IF page.items = <<>> THEN NoToken ELSE page.nextSyncToken

\* a pass that stores the page token when the page has no sync token
SavedTokenOrPageToken(page) ==
  IF page.nextSyncToken # NoToken THEN page.nextSyncToken ELSE page.nextPageToken

\* the token the pass stores: eventPages.nextSyncToken, NoToken when falsy
SavedToken(page) == page.nextSyncToken

(***************************************************************************)
(* Time and the request parameters of a source's pass, lines 117-136.  An  *)
(* instant is a base and an offset from it in whole days and milliseconds  *)
(* of the day, so that no number exceeds the word of the checker           *)
(* (JavaScript computes the same sums exactly).  The base is the epoch, or *)
(* one reading of the clock whose value the specification does not hold.   *)
(***************************************************************************)
MsPerDay == 24 * 60 * 60 * 1000

\* an absent timeMin / timeMax
NoTime == [base |-> "", days |-> 0, ms |-> 0]
\* Date.now() when it returns ms milliseconds after day d of the epoch
Instant(d, ms) == [base |-> "epoch", days |-> d, ms |-> ms]
\* Date.now() of line 129 (k = 1) and of line 132 (k = 2), value not held
Reading(k) == [base |-> IF k = 1 THEN "line 129" ELSE "line 132", days |-> 0, ms |-> 0]
\* new Date(t + days * 24 * 60 * 60 * 1000).toISOString(): the instant that
\* many days from t, written to the millisecond
PlusDays(t, days) == [t EXCEPT !.days = t.days + days]
\* the instant n ms after t
PlusMs(t, n) ==
  [t EXCEPT !.days = t.days + (t.ms + n) \div MsPerDay,
            !.ms = (t.ms + n) % MsPerDay]
\* t before u, for instants of one base
Before(t, u) == t.days < u.days \/ (t.days = u.days /\ t.ms < u.ms)

\* a window that puts both bounds in the past
RequestParametersPastOnly(token, nowMin, nowMax) ==
  [showDeleted |-> TRUE, singleEvents |-> TRUE, maxResults |-> 250,
   syncToken |-> token,
   timeMin |-> IF token # NoToken THEN NoTime
               ELSE PlusDays(nowMin, 0 - INITIAL_SYNC_FUTURE_DAYS),
   timeMax |-> IF token # NoToken THEN NoTime
               ELSE PlusDays(nowMax, 0 - INITIAL_SYNC_PAST_DAYS),
   pageToken |-> NoPageToken]

\* parameters that carry the window whether or not a token is stored
RequestParametersWindowAlways(token, nowMin, nowMax) ==
  [showDeleted |-> TRUE, singleEvents |-> TRUE, maxResults |-> 250,
   syncToken |-> token,
   timeMin |-> PlusDays(nowMin, 0 - INITIAL_SYNC_PAST_DAYS),
   timeMax |-> PlusDays(nowMax, INITIAL_SYNC_FUTURE_DAYS),
   pageToken |-> NoPageToken]

\* requestParameters as lines 117-136 leave it; token is the stored token,
\* nowMin the reading of the clock of line 129 and nowMax that of line 132
RequestParameters(token, nowMin, nowMax) ==
  [showDeleted |-> TRUE, singleEvents |-> TRUE, maxResults |-> 250,
   syncToken |-> token,
   timeMin |-> IF token # NoToken THEN NoTime
               ELSE PlusDays(nowMin, 0 - INITIAL_SYNC_PAST_DAYS),
   timeMax |-> IF token # NoToken THEN NoTime
               ELSE PlusDays(nowMax, INITIAL_SYNC_FUTURE_DAYS),
   pageToken |-> NoPageToken]

\* requestParameters before line 117 and after the loop body
NoRequest ==
  [showDeleted |-> FALSE, singleEvents |-> FALSE, maxResults |-> 0,
   syncToken |-> NoToken, timeMin |-> NoTime, timeMax |-> NoTime,
   pageToken |-> NoPageToken]

(***************************************************************************)
(* State.                                                                  *)
(***************************************************************************)
VARIABLES
  target,          \* the events of the target calendar
  tokens,          \* user properties: source -> stored sync token or NoToken
  pc,              \* where mainSyncFunction stands; "idle" when none runs
  primaryCalendar, \* local: the resolved target calendar or Null
  srcIdx,          \* local: index in SOURCE_CALENDARS of the source in hand
  syncToken,       \* local: the token read when the source's pass began
  pageToken,       \* local: the page to ask for next
  eventPages,      \* local: the last page fetched
  itemIdx,         \* local: index in eventPages.items of the record in hand
  requestParameters, \* local: the parameters of the list requests of the pass
  sleptMs,         \* milliseconds the last step spent in Utilities.sleep
  lastLog,         \* the last line the last step gave to Logger.log, "" if none
  thrown,          \* the message of the exception the last step met, {} if none
  passStart,       \* history: the target calendar when the pass in hand began
  passClean,       \* history: no call of the pass in hand has failed
  pagesFlushed,    \* history: pages of the pass in hand whose records are all applied
  flushed,         \* history: source -> pages flushed by its last pass, if that was killed
  expired,         \* history: sources whose stored cursor the service has called
                   \* invalid and that have fetched nothing since
  resetPending     \* history: resetAllSyncTokens has run and the invocation
                   \* that follows it has not ended

\* a source event followed through its attributions (the Record Transformer
\* on its own)
VARIABLES
  eventSummary,    \* sourceEvent.summary of the event
  owner,           \* index in SOURCE_CALENDARS of the source that holds the event
  targetTitle,     \* the title last written to the target event, <<>> if none
  written          \* history: the sources of the writes made since the summary
                   \* was last edited, oldest first

titleVars == << eventSummary, owner, targetTitle, written >>

\* the clock and the head of the loop body, lines 115-136, on their own
VARIABLES
  clock,           \* what Date.now() returns when called
  stored,          \* the token getProperty returned at line 115
  now1,            \* the reading of the clock at line 129, NoTime before it
  windowPc         \* the line reached, "idle" when the head is not followed

windowVars == << clock, stored, now1, windowPc >>

\* deleteAllSyncedEventsFromPrimary
VARIABLES
  purgePc,         \* where the function stands; "idle" when it does not run
  purgePageToken,  \* local: pageToken
  events,          \* local: the last page of the search
  purgeIdx,        \* local: index in events.items of the event in hand
  deletedCount,    \* local: deletedCount, reported at line 364
  purgeLog,        \* the last line the function gave to Logger.log
  purgeStart,      \* history: the target calendar when the function began
  purgeError       \* history: a call to the service has thrown in this run

purgeVars == << purgePc, purgePageToken, events, purgeIdx, deletedCount,
                purgeLog, purgeStart, purgeError >>

\* the state of the operations followed apart from mainSyncFunction's pass
others == << titleVars, windowVars, purgeVars >>

vars == << target, tokens, pc, primaryCalendar, srcIdx, syncToken, pageToken,
           eventPages, itemIdx, requestParameters, sleptMs, lastLog, thrown, passStart, passClean,
           pagesFlushed, flushed, expired, resetPending, others >>

locals == << syncToken, pageToken, eventPages, itemIdx, requestParameters >>
history == << passStart, passClean, pagesFlushed, flushed, expired, resetPending >>

\* no source event is being followed
TitleIdle ==
  /\ eventSummary = <<>>
  /\ owner = 0
  /\ targetTitle = <<>>
  /\ written = <<>>

\* the head of the loop body is not being followed
WindowIdle ==
  /\ clock = NoTime
  /\ stored = NoToken
  /\ now1 = NoTime
  /\ windowPc = "idle"

\* deleteAllSyncedEventsFromPrimary does not run
PurgeIdle ==
  /\ purgePc = "idle"
  /\ purgePageToken = NoPageToken
  /\ events = [items |-> <<>>, nextPageToken |-> NoPageToken]
  /\ purgeIdx = 0
  /\ deletedCount = 0
  /\ purgeLog = ""
  /\ purgeStart = {}
  /\ purgeError = FALSE

\* before the first invocation: the owner's event, no stored token
SyncInit ==
  /\ target = {OwnerEvent}
  /\ tokens = [s \in SourceIdx |-> NoToken]
  /\ pc = "idle"
  /\ primaryCalendar = Null
  /\ srcIdx = 0
  /\ syncToken = NoToken
  /\ pageToken = NoPageToken
  /\ eventPages = NoPage
  /\ itemIdx = 0
  /\ requestParameters = NoRequest
  /\ sleptMs = 0
  /\ lastLog = ""
  /\ thrown = {}
  /\ passStart = {}
  /\ passClean = TRUE
  /\ pagesFlushed = 0
  /\ flushed = [s \in SourceIdx |-> 0]
  /\ expired = {}
  /\ resetPending = FALSE

Init == SyncInit /\ TitleIdle /\ WindowIdle /\ PurgeIdle

\* the function returns or is left by an exception: its locals are gone
Return ==
  /\ pc' = "idle"
  /\ primaryCalendar' = Null
  /\ srcIdx' = 0
  /\ syncToken' = NoToken
  /\ pageToken' = NoPageToken
  /\ eventPages' = NoPage
  /\ itemIdx' = 0
  /\ requestParameters' = NoRequest
  /\ passStart' = {}
  /\ passClean' = TRUE
  /\ pagesFlushed' = 0
  /\ resetPending' = FALSE

(***************************************************************************)
(* mainSyncFunction, lines 101-109: resolve the target calendar.           *)
(***************************************************************************)
Invoke ==
  /\ pc = "idle"
  /\ UNCHANGED others
  /\ \E cal \in {Null, TARGET_CALENDAR_ID} :
       /\ primaryCalendar' = cal
       /\ IF TargetMissing(cal)
            THEN /\ lastLog' = "Error: Target calendar not found"
                 /\ UNCHANGED << pc, srcIdx >>
            ELSE /\ pc' = "source"
                 /\ srcIdx' = 1
                 /\ lastLog' = ""
  /\ thrown' = {}
  /\ sleptMs' = 0
  /\ UNCHANGED << target, tokens, locals, history >>

(***************************************************************************)
(* Lines 112-136: the head of the loop over SOURCE_CALENDARS.  getName()   *)
(* of a source that does not resolve throws outside the try block.         *)
(***************************************************************************)
StartSource ==
  /\ pc = "source"
  /\ UNCHANGED others
  /\ \E resolves \in BOOLEAN :
       IF resolves
         THEN /\ syncToken' = tokens[srcIdx]
              /\ requestParameters' =
                   RequestParameters(tokens[srcIdx], Reading(1), Reading(2))
              /\ pageToken' = NoPageToken
              /\ eventPages' = NoPage
              /\ itemIdx' = 0
              /\ pc' = "fetch"
              /\ lastLog' = IF tokens[srcIdx] # NoToken THEN "Sync (Token) starting"
                                                       ELSE "Sync (First Time) starting"
              /\ thrown' = {}
              /\ passStart' = target
              /\ passClean' = TRUE
              /\ pagesFlushed' = 0
              /\ UNCHANGED << primaryCalendar, srcIdx, resetPending >>
         ELSE /\ Return
              /\ thrown' = {"TypeError", "Cannot read properties of null"}
              /\ lastLog' = ""
  /\ sleptMs' = 0
  /\ UNCHANGED << target, tokens, flushed, expired >>

(***************************************************************************)
(* Lines 143-149 and the catch block, lines 178-185: ask for a page.       *)
(***************************************************************************)
FetchOk ==
  /\ pc = "fetch"
  /\ UNCHANGED others
  /\ requestParameters' = [requestParameters EXCEPT !.pageToken = pageToken]
  /\ eventPages' = ListPage(srcIdx, syncToken, pageToken)
  /\ IF eventPages'.items = <<>>
       THEN /\ lastLog' = "No changes found"
            /\ pc' = "save"
            /\ itemIdx' = 0
       ELSE /\ pc' = "items"
            /\ itemIdx' = 1
            /\ lastLog' = ""
  /\ thrown' = {}
  /\ sleptMs' = 0
  /\ expired' = expired \ {srcIdx}
  /\ UNCHANGED << target, tokens, primaryCalendar, srcIdx, syncToken, pageToken,
                  passStart, passClean, pagesFlushed, flushed, resetPending >>

FetchThrows ==
  /\ pc = "fetch"
  /\ UNCHANGED others
  /\ \E e \in FetchErrors :
       /\ thrown' = e
       /\ expired' = IF e \in InvalidCursorSignals /\ syncToken # NoToken
                        THEN expired \cup {srcIdx} ELSE expired
       /\ IF IsTokenExpired(e)
            THEN /\ tokens' = [tokens EXCEPT ![srcIdx] = NoToken]
                 /\ lastLog' = "Sync Token Expired"
            ELSE /\ lastLog' = "Error syncing"
                 /\ UNCHANGED tokens
  /\ requestParameters' = [requestParameters EXCEPT !.pageToken = pageToken]
  /\ pc' = "next"
  /\ passClean' = FALSE
  /\ sleptMs' = 0
  /\ UNCHANGED << target, primaryCalendar, srcIdx, syncToken, pageToken,
                  eventPages, itemIdx, passStart, pagesFlushed, flushed,
                  resetPending >>

(***************************************************************************)
(* Lines 151-171: one record of the page, then the end of the page.        *)
(***************************************************************************)
ProcessRecord ==
  /\ pc = "items"
  /\ UNCHANGED others
  /\ LET sourceEvent == eventPages.items[itemIdx]
         source == SOURCE_CALENDARS[srcIdx]
         lastItem == itemIdx = Len(eventPages.items)
         \* the helper writes unless a deletion finds no event of the tag
         writes == sourceEvent.status # "cancelled"
                     \/ FindByTag(target, sourceEvent.id) # {}
     IN
     /\ \E lookupOk \in BOOLEAN, writeOk \in BOOLEAN :
          /\ (~lookupOk \/ ~writes) => writeOk
          /\ IF lookupOk /\ writeOk
               THEN /\ target' = ApplyRecord(target, sourceEvent, source)
                    /\ lastLog' = RecordLog(target, sourceEvent)
                    /\ passClean' = (passClean /\ lastLog' # "Error inserting/updating event")
                    /\ thrown' = IF lastLog' = "Error inserting/updating event"
                                   THEN {"Calendar usage limits exceeded"} ELSE {}
               ELSE /\ target' = ApplyRecordThrows(target, sourceEvent, source)
                    /\ lastLog' = ThrowsLog(sourceEvent, lookupOk)
                    /\ passClean' = FALSE
                    /\ thrown' = {"Service invoked too many times"}
     /\ sleptMs' = Throttle(syncToken)
     /\ IF ~lastItem
          THEN /\ itemIdx' = itemIdx + 1
               /\ UNCHANGED << pc, pageToken, pagesFlushed >>
          ELSE /\ itemIdx' = 0
               /\ pageToken' = eventPages.nextPageToken
               /\ pagesFlushed' = pagesFlushed + 1
               /\ pc' = IF LoopContinues(eventPages) THEN "fetch" ELSE "save"
  /\ UNCHANGED << tokens, primaryCalendar, srcIdx, syncToken, eventPages,
                  requestParameters, passStart, flushed, expired, resetPending >>

(***************************************************************************)
(* Lines 173-176: store the new sync token.                                *)
(***************************************************************************)
SaveToken ==
  /\ pc = "save"
  /\ UNCHANGED others
  /\ IF SavedToken(eventPages) # NoToken
       THEN /\ tokens' = [tokens EXCEPT ![srcIdx] = SavedToken(eventPages)]
            /\ lastLog' = "New Sync Token saved"
       ELSE /\ lastLog' = ""
            /\ UNCHANGED tokens
  /\ pc' = "next"
  /\ thrown' = {}
  /\ sleptMs' = 0
  /\ UNCHANGED << target, primaryCalendar, srcIdx, locals, history >>

(***************************************************************************)
(* Line 186: the end of the loop body; the next source, or return.         *)
(***************************************************************************)
NextSource ==
  /\ pc = "next"
  /\ UNCHANGED others
  /\ flushed' = [flushed EXCEPT ![srcIdx] = 0]
  /\ IF srcIdx < NumSources
       THEN /\ pc' = "source"
            /\ srcIdx' = srcIdx + 1
            /\ requestParameters' = NoRequest
            /\ UNCHANGED << primaryCalendar, syncToken, pageToken, eventPages,
                            itemIdx, passStart, passClean, pagesFlushed,
                            resetPending >>
       ELSE Return
  /\ thrown' = {}
  /\ lastLog' = ""
  /\ sleptMs' = 0
  /\ UNCHANGED << target, tokens, expired >>

(***************************************************************************)
(* The host ends a running execution (the 6-minute limit).                 *)
(***************************************************************************)
Kill ==
  /\ pc # "idle"
  /\ UNCHANGED others
  /\ flushed' = IF pc \in {"fetch", "items", "save"}
                  THEN [flushed EXCEPT ![srcIdx] = pagesFlushed]
                  ELSE IF pc = "next" THEN [flushed EXCEPT ![srcIdx] = 0]
                       ELSE flushed
  /\ Return
  /\ thrown' = {"Exceeded maximum execution time"}
  /\ lastLog' = ""
  /\ sleptMs' = 0
  /\ UNCHANGED << target, tokens, expired >>

(***************************************************************************)
(* resetAllSyncTokens, lines 307-318.                                      *)
(***************************************************************************)
ResetAllSyncTokens ==
  /\ pc = "idle"
  /\ UNCHANGED others
  /\ tokens' = ResetTokens(tokens)
  /\ lastLog' = "Reset complete"
  /\ flushed' = [s \in SourceIdx |-> 0]
  /\ resetPending' = TRUE
  /\ thrown' = {}
  /\ sleptMs' = 0
  /\ UNCHANGED << target, pc, primaryCalendar, srcIdx, locals,
                  passStart, passClean, pagesFlushed, expired >>

Next ==
  \/ Invoke
  \/ StartSource
  \/ FetchOk
  \/ FetchThrows
  \/ ProcessRecord
  \/ SaveToken
  \/ NextSource
  \/ Kill
  \/ ResetAllSyncTokens

Spec == Init /\ [][Next]_vars

(***************************************************************************)
(* The title rewriting of createOrUpdateEvent, lines 223-234, on its own:  *)
(* one source event, whose summary the source's owner may edit and which   *)
(* may move from one source calendar to another, is written to the target  *)
(* again and again.                                                        *)
(***************************************************************************)
\* a summary has at most MaxWords words
MaxWords == 2
\* at most MaxWrites writes are followed between two edits
MaxWrites == 3

TitleWords == {W("Lunch"), B("Work"), B("Univ"), B("Work Calendar")}
Summaries == UNION {[1..n -> TitleWords] : n \in 0..MaxWords}

TitleInit ==
  /\ SyncInit
  /\ eventSummary \in Summaries
  /\ owner \in SourceIdx
  /\ targetTitle = <<>>
  /\ written = <<>>
  /\ WindowIdle
  /\ PurgeIdle

\* the unchanged state of mainSyncFunction
syncVars == << target, tokens, pc, primaryCalendar, srcIdx, syncToken, pageToken,
               eventPages, itemIdx, requestParameters, sleptMs, lastLog, thrown, passStart,
               passClean, pagesFlushed, flushed, expired, resetPending >>

\* lines 223-240: the title of the payload written for the event
TitleWrite ==
  /\ Len(written) < MaxWrites
  /\ targetTitle' = TitleFor(eventSummary, SOURCE_CALENDARS[owner].prefix,
                             SOURCE_CALENDARS[owner].name)
  /\ written' = Append(written, owner)
  /\ UNCHANGED << eventSummary, owner, syncVars, windowVars, purgeVars >>

\* the event is moved to another source calendar
TitleMove ==
  /\ \E s \in SourceIdx \ {owner} : owner' = s
  /\ UNCHANGED << eventSummary, targetTitle, written, syncVars, windowVars, purgeVars >>

\* the source's owner edits the summary
TitleEdit ==
  /\ \E t \in Summaries \ {eventSummary} : eventSummary' = t
  /\ written' = <<>>
  /\ UNCHANGED << owner, targetTitle, syncVars, windowVars, purgeVars >>

TitleNext ==
  \/ TitleWrite
  \/ TitleMove
  \/ TitleEdit

SpecTitle == TitleInit /\ [][TitleNext]_vars

(***************************************************************************)
(* The head of the loop body, lines 115-136, with the clock: the token is  *)
(* read, and when there is none the clock is read twice, at line 129 and   *)
(* at line 132, and may advance in between.                                *)
(***************************************************************************)
\* the clock advances at most MaxElapsed ms between the two readings
MaxElapsed == 1
\* the invocation begins on one of MaxDays + 1 days
MaxDays == 3

\* the instants at which the head of the loop body is entered
Clocks ==
  {Instant(d, ms) : d \in 20000..(20000 + MaxDays),
                    ms \in {0, 1, MsPerDay - 2, MsPerDay - 1}}

\* the state of mainSyncFunction but its request parameters
syncVarsButRequest ==
  << target, tokens, pc, primaryCalendar, srcIdx, syncToken, pageToken,
     eventPages, itemIdx, sleptMs, lastLog, thrown, passStart, passClean,
     pagesFlushed, flushed, expired, resetPending >>

WindowInit ==
  /\ SyncInit
  /\ TitleIdle
  /\ PurgeIdle
  /\ clock \in Clocks
  /\ stored \in 0..MaxTok
  /\ now1 = NoTime
  /\ windowPc = "line 123"

\* lines 123-130: with a token, the parameters carry it; without, the
\* clock is read and timeMin set
WindowStart ==
  /\ windowPc = "line 123"
  /\ IF stored # NoToken
       THEN /\ requestParameters' = RequestParameters(stored, NoTime, NoTime)
            /\ windowPc' = "line 138"
            /\ UNCHANGED now1
       ELSE /\ now1' = clock
            /\ windowPc' = "line 132"
            /\ UNCHANGED requestParameters
  /\ UNCHANGED << clock, stored, syncVarsButRequest, titleVars, purgeVars >>

\* time passes between line 129 and line 132
ClockTick ==
  /\ windowPc = "line 132"
  /\ Before(clock, PlusMs(now1, MaxElapsed))
  /\ clock' = PlusMs(clock, 1)
  /\ UNCHANGED << stored, now1, windowPc, syncVars, titleVars, purgeVars >>

\* lines 132-136: the clock is read again and timeMax set
WindowEnd ==
  /\ windowPc = "line 132"
  /\ requestParameters' = RequestParameters(stored, now1, clock)
  /\ windowPc' = "line 138"
  /\ UNCHANGED << clock, stored, now1, syncVarsButRequest, titleVars, purgeVars >>

WindowNext ==
  \/ WindowStart
  \/ ClockTick
  \/ WindowEnd

SpecWindow == WindowInit /\ [][WindowNext]_vars

(***************************************************************************)
(* deleteAllSyncedEventsFromPrimary, lines 325-365, run by hand on a       *)
(* target calendar that holds events of its owner and mirrored events.     *)
(***************************************************************************)
\* results per page of the search (maxResults: 250 in the code)
MaxResults == 2

\* q of line 335
PurgeQuery == "extendedProperty:sourceEventId"

\* Calendar.Events.list with q: the free-text search of the service, which
\* matches the terms against the text of an event (summary, description),
\* not against its extended properties (the filter by tag is
\* privateExtendedProperty, lines 208 and 278)
QueryMatches(e, q) ==
  \/ e.description = q
  \/ \E i \in 1..Len(e.summary) : e.summary[i].txt = q

\* an event of the owner whose notes hold the words of the query
OwnerNote ==
  [id |-> 1, tag |-> NoTag, summary |-> <<W("Notes")>>,
   description |-> PurgeQuery, start |-> AllDay("d0"), colorId |-> ""]

\* the events the target calendar may hold when the function is run: the
\* owner's, and mirrors of source events, one of which has the words of the
\* query in its description
PurgeEvents ==
  { OwnerEvent,
    OwnerNote,
    Payload(Active("a", <<W("Lunch")>>, "", Timed("t1")), SOURCE_CALENDARS[1], 2),
    Payload(Active("b", <<W("Lunch")>>, "", Timed("t3")), SOURCE_CALENDARS[2], 3),
    Payload(Active("n", <<W("Sync")>>, PurgeQuery, AllDay("d3")), SOURCE_CALENDARS[3], 4) }

\* the events of S by id
RECURSIVE ById(_)
ById(S) ==
  IF S = {} THEN <<>>
  ELSE LET e == CHOOSE x \in S : \A y \in S : x.id <= y.id
       IN  <<e>> \o ById(S \ {e})

\* the answer of the search to a page token: n of the matching events that
\* follow it (a page may hold fewer than maxResults, or none, while events
\* remain), and a nextPageToken when events remain after them
SearchPage(T, q, pt, n) ==
  LET rest == ById({e \in T : QueryMatches(e, q) /\ e.id + 1 >= pt})
      k == IF n < Len(rest) THEN n ELSE Len(rest)
  IN  [items |-> SubSeq(rest, 1, k),
       nextPageToken |-> IF k = Len(rest) THEN NoPageToken
                         ELSE IF k = 0 THEN (IF pt = NoPageToken THEN 1 ELSE pt)
                         ELSE rest[k].id + 2]

\* the state of mainSyncFunction but the target calendar
syncVarsButTarget ==
  << tokens, pc, primaryCalendar, srcIdx, syncToken, pageToken, eventPages,
     itemIdx, requestParameters, sleptMs, lastLog, thrown, passStart,
     passClean, pagesFlushed, flushed, expired, resetPending >>

PurgeInit ==
  /\ target \in SUBSET PurgeEvents
  /\ tokens \in {[s \in SourceIdx |-> NoToken], [s \in SourceIdx |-> 1]}
  /\ pc = "idle"
  /\ primaryCalendar = Null
  /\ srcIdx = 0
  /\ syncToken = NoToken
  /\ pageToken = NoPageToken
  /\ eventPages = NoPage
  /\ itemIdx = 0
  /\ requestParameters = NoRequest
  /\ sleptMs = 0
  /\ lastLog = ""
  /\ thrown = {}
  /\ passStart = {}
  /\ passClean = TRUE
  /\ pagesFlushed = 0
  /\ flushed = [s \in SourceIdx |-> 0]
  /\ expired = {}
  /\ resetPending = FALSE
  /\ TitleIdle
  /\ WindowIdle
  /\ PurgeIdle

\* lines 326-329
PurgeBegin ==
  /\ purgePc \in {"idle", "done"}
  /\ purgePc' = "list"
  /\ purgePageToken' = NoPageToken
  /\ events' = [items |-> <<>>, nextPageToken |-> NoPageToken]
  /\ purgeIdx' = 0
  /\ deletedCount' = 0
  /\ purgeLog' = "WARNING! Starting cleanup"
  /\ purgeStart' = target
  /\ purgeError' = FALSE
  /\ UNCHANGED << target, syncVarsButTarget, titleVars, windowVars >>

\* lines 334-343: the search answers; the loop is left on a page of no items
PurgeList ==
  /\ purgePc = "list"
  /\ \E n \in 0..MaxResults :
       events' = SearchPage(target, PurgeQuery, purgePageToken, n)
  /\ IF events'.items = <<>>
       THEN /\ purgeLog' = "No more synced events found to delete."
            /\ purgePc' = "done"
            /\ purgeIdx' = 0
       ELSE /\ purgeLog' = ""
            /\ purgePc' = "items"
            /\ purgeIdx' = 1
  /\ UNCHANGED << target, purgePageToken, deletedCount, purgeStart, purgeError,
                  syncVarsButTarget, titleVars, windowVars >>

\* lines 358-361: the search throws
PurgeListThrows ==
  /\ purgePc = "list"
  /\ purgeLog' = "Error searching for events to delete"
  /\ purgeError' = TRUE
  /\ purgePc' = "done"
  /\ UNCHANGED << target, purgePageToken, events, purgeIdx, deletedCount,
                  purgeStart, syncVarsButTarget, titleVars, windowVars >>

\* lines 345-356: one event of the page, then the end of the page
PurgeRemove ==
  /\ purgePc = "items"
  /\ \E removeOk \in BOOLEAN :
       IF removeOk
         THEN /\ target' = RemoveEvent(target, events.items[purgeIdx].id)
              /\ deletedCount' = deletedCount + 1
              /\ purgeLog' = "Deleted"
              /\ UNCHANGED purgeError
         ELSE /\ purgeLog' = "Error deleting"
              /\ purgeError' = TRUE
              /\ UNCHANGED << target, deletedCount >>
  /\ IF purgeIdx < Len(events.items)
       THEN /\ purgeIdx' = purgeIdx + 1
            /\ UNCHANGED << purgePc, purgePageToken >>
       ELSE /\ purgeIdx' = 0
            /\ purgePageToken' = events.nextPageToken
            /\ purgePc' = IF events.nextPageToken # NoPageToken THEN "list" ELSE "done"
  /\ UNCHANGED << events, purgeStart, syncVarsButTarget, titleVars, windowVars >>

PurgeNext ==
  \/ PurgeBegin
  \/ PurgeList
  \/ PurgeListThrows
  \/ PurgeRemove

SpecPurge == PurgeInit /\ [][PurgeNext]_vars


(***************************************************************************)
(* One pass over a source when every call answers: the do-while loop of    *)
(* lines 142-171 and the token of lines 173-176.                           *)
(***************************************************************************)
RECURSIVE ApplyItems(_, _, _, _)
ApplyItems(T, items, source, i) ==
  IF i > Len(items) THEN T
  ELSE ApplyItems(ApplyRecord(T, items[i], source), items, source, i + 1)

RECURSIVE RunPages(_, _, _, _)
RunPages(T, s, tok, pt) ==
  LET page == ListPage(s, tok, pt) IN
  IF page.items = <<>> THEN [target |-> T, page |-> page]
  ELSE LET T2 == ApplyItems(T, page.items, SOURCE_CALENDARS[s], 1) IN
       IF LoopContinues(page) THEN RunPages(T2, s, tok, page.nextPageToken)
                              ELSE [target |-> T2, page |-> page]

CompletePass(T, s, tok) ==
  LET r == RunPages(T, s, tok, NoPageToken) IN
  [target |-> r.target,
   token |-> IF SavedToken(r.page) # NoToken THEN SavedToken(r.page) ELSE tok]

(***************************************************************************)
(* Properties.                                                             *)
(***************************************************************************)
TypeOK ==
  /\ pc \in {"idle", "source", "fetch", "items", "save", "next"}
  /\ tokens \in [SourceIdx -> 0..MaxTok]
  /\ srcIdx \in 0..NumSources
  /\ Cardinality(target) <= MaxTarget
  /\ \A e, f \in target : e.id = f.id => e = f

Tagged(T) == {e \in T : e.tag # NoTag}
NoDuplicateTags(T) == \A e, f \in Tagged(T) : e.tag = f.tag => e = f
KillMessage == {"Exceeded maximum execution time"}

\* C1 (Uniqueness): from a target calendar with no tagged event, after any
\* sequence of invocations (bootstrap or delta passes, passes ended by an
\* error, passes killed and run again), at most one target event carries a
\* given sourceEventId tag.
C1_Uniqueness == NoDuplicateTags(target)

\* C1 witness: a pass that was killed is run again and finds, by its tag, an
\* event the killed pass had made.
C1_Witness ==
  /\ pc \in {"items", "fetch", "save"}
  /\ flushed[srcIdx] >= 1
  /\ lastLog = "Event updated"
  /\ Cardinality(Tagged(target)) >= 2

\* C2 (Cursor commit point): a sync token is written for a source only by
\* the step after that source's page loop has ended, and the value written
\* is the nextSyncToken of the last page fetched, which carries no
\* nextPageToken; a kill or an exception writes none.
C2_CommitPoint ==
  [][\A s \in SourceIdx :
        ((tokens'[s] # tokens[s] /\ tokens'[s] # NoToken)
           \/ (lastLog' = "New Sync Token saved" /\ srcIdx = s))
        => /\ pc = "save"
           /\ srcIdx = s
           /\ thrown' = {}
           /\ eventPages.nextPageToken = NoPageToken
           /\ eventPages = Feed(s, syncToken)[Len(Feed(s, syncToken))]
           /\ tokens'[s] = eventPages.nextSyncToken]_vars

\* C2 witness: a token has just been stored after a pass of several pages.
C2_Witness ==
  /\ pc = "next"
  /\ lastLog = "New Sync Token saved"
  /\ pagesFlushed >= 2
  /\ tokens[srcIdx] = eventPages.nextSyncToken

\* C3 (Cursor lifecycle): no token is stored at first run; a token becomes
\* present only by the store step of a pass whose last page returned it; a
\* present token becomes absent only when the fetch reports the cursor
\* invalid or expired, or by resetAllSyncTokens; any other step leaves a
\* present token unchanged or replaces it by the token the pass returned.
C3_Lifecycle ==
  /\ \A s \in SourceIdx : tokens[s] = NoToken
  /\ [][\A s \in SourceIdx :
          /\ (tokens[s] = NoToken /\ tokens'[s] # NoToken)
               => (pc = "save" /\ srcIdx = s /\ tokens'[s] = eventPages.nextSyncToken)
          /\ (tokens[s] # NoToken /\ tokens'[s] = NoToken)
               => \/ (pc = "idle" /\ lastLog' = "Reset complete")
                  \/ (pc = "fetch" /\ srcIdx = s /\ thrown' \in InvalidCursorSignals)
          /\ (tokens[s] # NoToken /\ tokens'[s] # NoToken /\ tokens'[s] # tokens[s])
               => (pc = "save" /\ srcIdx = s /\ tokens'[s] = eventPages.nextSyncToken
                   /\ tokens'[s] > tokens[s])]_vars

\* C3 witness: a delta pass has met another error than an invalid cursor and
\* its token is still stored.
C3_Witness ==
  /\ pc = "next"
  /\ thrown = QuotaMessage
  /\ syncToken # NoToken
  /\ tokens[srcIdx] = syncToken

\* C4 (Cursor-expiry recovery): when the fetch of a delta pass reports the
\* cursor invalid, the stored token of that source is deleted and the pass
\* ends without another record processed; the token stays absent until that
\* source next begins a pass, which then runs in first-time mode.
C4_ExpiryRecovery ==
  /\ [][(pc = "fetch" /\ syncToken # NoToken /\ thrown' \in InvalidCursorSignals)
          => /\ tokens'[srcIdx] = NoToken
             /\ target' = target
             /\ pc' = "next"
             /\ srcIdx' = srcIdx
             /\ lastLog' = "Sync Token Expired"]_vars
  /\ [](\A s \in expired : tokens[s] = NoToken)
  /\ []((pc = "fetch" /\ srcIdx \in expired) => syncToken = NoToken)
  /\ [][(pc = "source" /\ pc' = "fetch" /\ srcIdx \in expired)
          => lastLog' = "Sync (First Time) starting"]_vars

\* C4 witness: an invocation after the expiry begins that source's pass
\* without a token.
C4_Witness ==
  /\ pc = "fetch"
  /\ srcIdx \in expired
  /\ syncToken = NoToken
  /\ lastLog = "Sync (First Time) starting"
  /\ Tagged(target) # {}

\* the records the change feeds deliver, with the source delivering them
FeedRecords ==
  {<<s, Feed(s, tok)[k].items[i]>> :
     <<s, tok, k, i>> \in
       {q \in SourceIdx \X (0..MaxTok) \X (1..3) \X (1..2) :
          /\ q[3] <= Len(Feed(q[1], q[2]))
          /\ q[4] <= Len(Feed(q[1], q[2])[q[3]].items)}}

DeleteLogs == {"Deleted", "Already deleted", "Error trying to delete event"}

\* C5 (Deletion correctness): processing a 'cancelled' change whose id is
\* the tag of a target event removes that event and no other (when the
\* lookup or the removal throws, the error is logged and nothing is
\* removed); when no target event carries the tag the target calendar is
\* unchanged; in no case is an error raised to mainSyncFunction.
C5_Deletion ==
  [][(pc = "items" /\ lastLog' \in DeleteLogs)
       => LET id == eventPages.items[itemIdx].id
              found == {e \in target : e.tag = id}
          IN  /\ eventPages.items[itemIdx].status = "cancelled"
              /\ lastLog' = "Deleted"
                   => /\ found # {}
                      /\ thrown' = {}
                      /\ \E e \in found : target' = target \ {e}
                      /\ \A e \in target' : e.tag # id
              /\ lastLog' = "Already deleted"
                   => (found = {} /\ thrown' = {} /\ target' = target)
              /\ lastLog' = "Error trying to delete event"
                   => (thrown' # {} /\ target' = target)
              /\ (found # {} /\ thrown' = {}) => lastLog' = "Deleted"
              /\ pc' \in {"items", "fetch", "save"}
              /\ srcIdx' = srcIdx]_vars

\* C5 witness: a deletion has removed the one event carrying the tag while
\* other tagged events and the owner's event are still there.
C5_Witness ==
  /\ lastLog = "Deleted"
  /\ Cardinality(Tagged(target)) >= 1
  /\ OwnerEvent \in target

\* createOrUpdateEvent applied to the calendar T with a record of the feeds,
\* and applied again, leaves what the first application left; one event
\* carries the tag, and an event that carried it keeps its id
TwiceIsOnce(T) ==
  \A r \in FeedRecords :
    r[2].status # "cancelled" =>
      LET T1 == CreateOrUpdateEvent(T, r[2], SOURCE_CALENDARS[r[1]])
      IN  /\ CreateOrUpdateEvent(T1, r[2], SOURCE_CALENDARS[r[1]]) = T1
          /\ Cardinality(FindByTag(T1, r[2].id)) = 1
          /\ \A e \in FindByTag(T, r[2].id) :
               \E f \in T1 : f.id = e.id /\ f.tag = e.tag

\* C6 (Upsert idempotence, no drift): createOrUpdateEvent applied again with
\* the same source event and the same source configuration leaves the
\* target calendar as the first application left it (same event id, same
\* fields, same tag); and an update of a mirrored event keeps the ids of the
\* target calendar and leaves the event of that id tagged with the source
\* event id; a create adds one event tagged with the source event id; an
\* application whose lookup or write throws changes nothing.
C6_Idempotent ==
  /\ [](TwiceIsOnce(target))
  /\ [][(pc = "items" /\ lastLog' = "Event updated")
          => LET ev == eventPages.items[itemIdx] IN
             /\ {e.id : e \in target'} = {e.id : e \in target}
             /\ \A e \in target : e.tag = ev.id =>
                  \E f \in target' : f.id = e.id /\ f.tag = ev.id
             /\ \A f \in target' : f.tag = ev.id =>
                  f = Payload(ev, SOURCE_CALENDARS[srcIdx], f.id)
             /\ \A e \in target : e.tag # ev.id => e \in target']_vars
  /\ [][(pc = "items" /\ lastLog' = "Event created")
          => LET ev == eventPages.items[itemIdx] IN
             /\ FindByTag(target, ev.id) = {}
             /\ \E f \in target' :
                  /\ f = Payload(ev, SOURCE_CALENDARS[srcIdx], f.id)
                  /\ f.id \notin {e.id : e \in target}
                  /\ target' = target \cup {f}]_vars
  /\ [][(pc = "items" /\ lastLog' \in {"Error searching for duplicate event",
                                        "Error inserting/updating event"})
          => target' = target]_vars

\* C6 witness: the pass run again after a kill has applied to the target
\* calendar a record the killed pass had applied already.
C6_Witness ==
  /\ pc \in {"items", "fetch", "save"}
  /\ flushed[srcIdx] >= 1
  /\ pagesFlushed = 1
  /\ lastLog = "Event updated"
  /\ passStart = target

\* C7 (Per-source failure isolation): a failure of one source (its fetch
\* throws, its cursor is invalid, the source calendar does not resolve) does
\* not end the invocation: the sources listed after it are still synced.
C7_Isolation ==
  [][(pc \in {"source", "fetch"} /\ thrown' # {} /\ thrown' # KillMessage
        /\ srcIdx < NumSources)
       => (pc' = "next" /\ srcIdx' = srcIdx)]_vars

\* C8 (Missing target): when the target calendar resolves to not found, the
\* invocation ends with one logged error, having fetched nothing, changed
\* no target event and no stored token.
C8_MissingTarget ==
  [][(pc = "idle" /\ primaryCalendar' = Null /\ lastLog' # "Reset complete")
       => /\ pc' = "idle"
          /\ lastLog' = "Error: Target calendar not found"
          /\ thrown' = {}
          /\ UNCHANGED << target, tokens, srcIdx, eventPages, pageToken, sleptMs >>]_vars

\* C8 witness: an invocation has ended on the missing target calendar with
\* mirrored events and a stored token in place.
C8_Witness ==
  /\ pc = "idle"
  /\ lastLog = "Error: Target calendar not found"
  /\ Tagged(target) # {}
  /\ \E s \in SourceIdx : tokens[s] # NoToken

\* the events of a target calendar without the ids the service gave them
Events(T) == {[tag |-> e.tag, summary |-> e.summary, description |-> e.description,
               start |-> e.start, colorId |-> e.colorId] : e \in T}
SameEvents(T1, T2) == Events(T1) = Events(T2) /\ Cardinality(T1) = Cardinality(T2)

\* C9 (Resumability): however far a pass has come when it is killed before
\* its token is stored, a complete pass run from the state it leaves (the
\* stored token unchanged, so the same change feed) ends with the events
\* (up to the ids the service gives new events) and the stored token of
\* one uninterrupted pass, without two events of one tag; and a pass of the
\* program whose calls all answered ends in exactly that state.
C9_Resumable ==
  /\ pc \in {"fetch", "items", "save"} =>
       LET resumed == CompletePass(target, srcIdx, tokens[srcIdx])
           single == CompletePass(passStart, srcIdx, syncToken)
       IN  /\ tokens[srcIdx] = syncToken
           /\ SameEvents(resumed.target, single.target)
           /\ resumed.token = single.token
           /\ NoDuplicateTags(resumed.target)
           /\ passClean => resumed = single
  /\ (pc = "next" /\ passClean) =>
       [target |-> target, token |-> tokens[srcIdx]]
         = CompletePass(passStart, srcIdx, syncToken)

\* C9 witness: a pass killed after some but not all of its pages has been
\* followed by a complete pass of the same source.
C9_Witness ==
  /\ pc = "next"
  /\ passClean
  /\ flushed[srcIdx] >= 1
  /\ flushed[srcIdx] < Len(Feed(srcIdx, syncToken))
  /\ pagesFlushed = Len(Feed(srcIdx, syncToken))
  /\ passStart # target
  /\ tokens[srcIdx] # syncToken

\* C10 (Pick up where it left off): an invocation that follows a killed one
\* does not fetch and apply again a page the killed pass had flushed.
C10_NoRefetch ==
  ~(pc = "items" /\ pagesFlushed + 1 <= flushed[srcIdx])


\* the pass in hand from the record after the one in hand to its end, when
\* every call answers: the rest of the page, then the pages that follow
RestOfPass(T) ==
  LET T1 == ApplyItems(T, eventPages.items, SOURCE_CALENDARS[srcIdx], itemIdx + 1)
  IN  IF LoopContinues(eventPages)
        THEN RunPages(T1, srcIdx, syncToken, eventPages.nextPageToken)
        ELSE [target |-> T1, page |-> eventPages]

\* C11 (Committed cursor matches flushed data): whenever a new sync token is
\* stored for a source, every record the pages of that pass returned has
\* been applied to the target calendar; a pass in which the lookup or the
\* write of some record failed stores no token.
C11_CursorMatchesFlushed ==
  [][(pc = "save" /\ lastLog' = "New Sync Token saved") => passClean]_vars

\* the feed of source s after token tok delivers a record of that id
MentionedIn(s, tok, id) ==
  \E k \in 1..Len(Feed(s, tok)) :
    \E i \in 1..Len(Feed(s, tok)[k].items) : Feed(s, tok)[k].items[i].id = id

\* the target calendar T mirrors the source record r of that source
AgreesWith(T, r, source) ==
  IF r.status = "cancelled"
    THEN FindByTag(T, r.id) = {}
    ELSE \E e \in T : e = Payload(r, source, e.id)

\* C12 (Eventual correction of a skipped record): when the lookup or the
\* write of a record fails during a pass, the record is skipped, and once
\* that pass has ended a later pass of the same source, the source having
\* made no further change to that record, brings the target event of the
\* record into agreement with the source.
C12_EventualCorrection ==
  [][(pc = "items" /\ thrown' # {} /\ thrown' # KillMessage)
       => LET r == eventPages.items[itemIdx]
              rest == RestOfPass(target)
              committed == IF SavedToken(rest.page) # NoToken
                             THEN SavedToken(rest.page) ELSE syncToken
              later == CompletePass(rest.target, srcIdx, committed)
          IN  /\ target' = target
              /\ (/\ \A i \in (itemIdx + 1)..Len(eventPages.items) :
                        eventPages.items[i].id # r.id
                  /\ ~MentionedIn(srcIdx, committed, r.id))
                   => AgreesWith(later.target, r, SOURCE_CALENDARS[srcIdx])]_vars


\* the bracketed groups a title begins with
RECURSIVE LeadingBrackets(_)
LeadingBrackets(title) ==
  IF title = <<>> \/ ~title[1].br THEN 0 ELSE 1 + LeadingBrackets(Tail(title))

\* C14 (Prefix round-trip): an event titled "Lunch" written from a source
\* of prefix "[Work]" gets the title "[Work] Lunch"; written again unchanged
\* it gets the same title, and the rewriting applied to the title it
\* produced leaves it as it is (no prefix accumulates); once the event is
\* held by the source of prefix "[Univ]" the title is "[Univ] Lunch", and
\* the title "[Work] Lunch" becomes "[Univ] Lunch", never
\* "[Univ] [Work] Lunch".
C14_PrefixRoundTrip ==
  written # <<>> =>
    LET source == SOURCE_CALENDARS[written[Len(written)]]
        one == IF LeadingBrackets(eventSummary) > 1 THEN LeadingBrackets(eventSummary) ELSE 1
    IN  /\ eventSummary = <<W("Lunch")>> => targetTitle = <<source.prefix, W("Lunch")>>
        /\ (eventSummary = <<B("Work"), W("Lunch")>> /\ source.prefix = B("Univ"))
             => targetTitle = <<B("Univ"), W("Lunch")>>
        /\ TitleFor(targetTitle, source.prefix, source.name) = targetTitle
        /\ LeadingBrackets(targetTitle) <= one
        /\ (Len(written) >= 2 /\ written[Len(written) - 1] = written[Len(written)])
             => targetTitle[1] = source.prefix \/ targetTitle = eventSummary

\* C14 witness: "Lunch" was written twice from the source of prefix "[Work]"
\* and then from the source of prefix "[Univ]".
C14_Witness ==
  /\ eventSummary = <<W("Lunch")>>
  /\ written = <<2, 2, 1>>
  /\ targetTitle = <<B("Univ"), W("Lunch")>>


\* C15 as claimed (Bootstrap windowing, one instant): every bootstrap
\* request carries timeMin = now - 7 days and timeMax = now + 365 days for
\* one and the same instant now, so timeMin is before timeMax.
C15_OneInstant ==
  (windowPc = "line 138" /\ stored = NoToken) =>
    LET now == PlusDays(requestParameters.timeMin, INITIAL_SYNC_PAST_DAYS)
    IN  /\ requestParameters.timeMin # NoTime
        /\ requestParameters.timeMax = PlusDays(now, INITIAL_SYNC_FUTURE_DAYS)
        /\ Before(requestParameters.timeMin, requestParameters.timeMax)

\* C15 amended (Bootstrap windowing): every bootstrap request carries
\* timeMin = now1 - 7 days and timeMax = now2 + 365 days, to the
\* millisecond, where now1 and now2 are two successive readings of the
\* clock (now2 is now1 or later); timeMin is before timeMax and the window
\* is finite: 372 days and the time between the two readings.  A delta
\* request carries no window.
C15_Window ==
  windowPc = "line 138" =>
    IF stored = NoToken
      THEN /\ requestParameters.timeMin = PlusDays(now1, 0 - INITIAL_SYNC_PAST_DAYS)
           /\ requestParameters.timeMax = PlusDays(clock, INITIAL_SYNC_FUTURE_DAYS)
           /\ now1 = clock \/ Before(now1, clock)
           /\ Before(requestParameters.timeMin, requestParameters.timeMax)
           /\ \E e \in 0..MaxElapsed :
                requestParameters.timeMax
                  = PlusMs(PlusDays(requestParameters.timeMin,
                                    INITIAL_SYNC_PAST_DAYS + INITIAL_SYNC_FUTURE_DAYS), e)
      ELSE /\ requestParameters.timeMin = NoTime
           /\ requestParameters.timeMax = NoTime

\* C15 witness: the parameters of a first sync are built and the clock
\* advanced, past midnight, between its two readings.
C15_Witness ==
  /\ windowPc = "line 138"
  /\ stored = NoToken
  /\ Before(now1, clock)
  /\ clock.ms = 0
  /\ requestParameters.timeMax.days - requestParameters.timeMin.days = 373


\* C16 (Request shape per mode): every list request issued to a source, on
\* every page of a pass, carries either the sync token (delta) or the
\* timeMin/timeMax window (bootstrap), never both and never neither; the
\* token it carries is the one stored when the source's pass began, and
\* nothing but the page token changes between the pages of a pass; every
\* request asks for cancelled records, for recurring events expanded into
\* instances, and for at most 250 results.
C16_RequestShape ==
  [][(pc = "fetch" /\ thrown' # KillMessage)
       => LET request == requestParameters' IN
          /\ (request.syncToken # NoToken)
               # (request.timeMin # NoTime \/ request.timeMax # NoTime)
          /\ (request.timeMin # NoTime) = (request.timeMax # NoTime)
          /\ request.syncToken = syncToken
          /\ request.syncToken = tokens[srcIdx]
          /\ request.pageToken = pageToken
          /\ [request EXCEPT !.pageToken = NoPageToken]
               = [requestParameters EXCEPT !.pageToken = NoPageToken]
          /\ request.showDeleted
          /\ request.singleEvents
          /\ request.maxResults = 250]_vars

\* C16 witness: the second page of a delta pass has been asked for.
C16_Witness ==
  /\ pc = "items"
  /\ syncToken # NoToken
  /\ requestParameters.pageToken # NoPageToken
  /\ requestParameters.syncToken = syncToken
  /\ requestParameters.timeMin = NoTime

\* C17 (Reset command): when resetAllSyncTokens has run no source has a
\* stored token and the target calendar is as it was; every pass the next
\* mainSyncFunction invocation begins, for whichever source, runs in
\* first-time mode.
C17_Reset ==
  /\ [][lastLog' = "Reset complete"
          => /\ pc = "idle" /\ pc' = "idle"
             /\ \A s \in SourceIdx : tokens'[s] = NoToken
             /\ target' = target
             /\ thrown' = {}]_vars
  /\ [][(resetPending' /\ pc' \in {"idle", "source"})
          => \A s \in SourceIdx : s >= srcIdx' => tokens'[s] = NoToken]_vars
  /\ [][(resetPending /\ pc = "source" /\ pc' = "fetch")
          => /\ syncToken' = NoToken
             /\ lastLog' = "Sync (First Time) starting"
             /\ requestParameters'.syncToken = NoToken
             /\ requestParameters'.timeMin # NoTime
             /\ requestParameters'.timeMax # NoTime]_vars

\* C17 witness: in the invocation that follows a reset the last source
\* begins a first-time pass, the first source having stored a token in
\* this invocation and mirrored events being in place.
C17_Witness ==
  /\ resetPending
  /\ pc = "fetch"
  /\ srcIdx = NumSources
  /\ syncToken = NoToken
  /\ lastLog = "Sync (First Time) starting"
  /\ tokens[1] # NoToken
  /\ Tagged(target) # {}

\* C19 (Throttle by mode): in a bootstrap pass Utilities.sleep of
\* INITIAL_SYNC_THROTTLE is applied once after each record processed,
\* upsert or deletion, whatever came of it; in a delta pass, and in any
\* other step, it is not applied.
C19_Throttle ==
  /\ [][(pc = "items" /\ thrown' # KillMessage)
          => sleptMs' = IF requestParameters.syncToken = NoToken
                          THEN INITIAL_SYNC_THROTTLE ELSE 0]_vars
  /\ [][(pc # "items" \/ thrown' = KillMessage) => sleptMs' = 0]_vars

\* C19 witness: a deletion has been processed in a bootstrap pass and the
\* delay applied.
C19_Witness ==
  /\ sleptMs = INITIAL_SYNC_THROTTLE
  /\ lastLog \in DeleteLogs
  /\ syncToken = NoToken
  /\ pc \in {"items", "fetch", "save"}

\* C20 (Pagination completeness): within a source's pass the next page is
\* fetched for as long as the last response carried a nextPageToken; the
\* pass is ended without an error only on a response that carries none, so
\* the records of the pages that follow a page of zero items are processed.
C20_PaginationComplete ==
  [][(pc = "fetch" /\ thrown' = {})
       => (pc' = "save" => eventPages'.nextPageToken = NoPageToken)]_vars


\* the events of T that carry no sourceEventId tag
Untagged(T) == {e \in T : e.tag = NoTag}

\* C13 (Ownership frame): no operation of the engine updates or deletes a
\* target event that carries no sourceEventId tag: the untagged events of
\* the target calendar and their fields are the same before and after
\* every step.
C13_OwnershipFrame ==
  [][Untagged(target') = Untagged(target)]_vars

\* C18 (Purge command): when deleteAllSyncedEventsFromPrimary has run to
\* its end and no call to the service has thrown, every target event that
\* carried a sourceEventId tag when it began is deleted, however many
\* pages the search gave, and the count reported is the number of events
\* removed.
C18_Purge ==
  (purgePc = "done" /\ ~purgeError) =>
    /\ \A e \in Tagged(purgeStart) : e \notin target
    /\ deletedCount = Cardinality(purgeStart \ target)

\* C21 (Empty pass): in a pass that began with a stored token, a first page
\* with no records ends the pass: the page is answered without an error,
\* the target calendar is as the pass found it, and the step that follows
\* writes nothing to the target, throws nothing and stores the page's
\* nextSyncToken in place of the source's token if the page carries one,
\* and otherwise leaves the stored tokens as they are.
C21_EmptyPass ==
  /\ [][(pc = "fetch" /\ syncToken # NoToken /\ thrown' = {}
          /\ pc' # "idle" /\ eventPages'.items = <<>>)
         => /\ pc' = "save"
            /\ lastLog' = "No changes found"
            /\ target' = target
            /\ tokens' = tokens]_vars
  /\ []((pc = "save" /\ syncToken # NoToken /\ pagesFlushed = 0)
         => target = passStart /\ passClean /\ thrown = {})
  /\ [][(pc = "save" /\ syncToken # NoToken /\ eventPages.items = <<>>
          /\ pc' = "next")
         => /\ target' = target
            /\ thrown' = {}
            /\ tokens' = IF eventPages.nextSyncToken # NoToken
                           THEN [tokens EXCEPT ![srcIdx] = eventPages.nextSyncToken]
                           ELSE tokens]_vars

\* an empty first page of a pass from a stored token has brought a token
\* that is now stored in place of the one the pass began with
C21_Witness ==
  /\ pc = "next"
  /\ syncToken # NoToken
  /\ eventPages.items = <<>>
  /\ pagesFlushed = 0
  /\ lastLog = "New Sync Token saved"
  /\ tokens[srcIdx] = eventPages.nextSyncToken
  /\ tokens[srcIdx] # syncToken
  /\ target = passStart

\* C22 (Record-level error containment): when the lookup or the write made
\* for a record throws, the helper logs the error from its catch block, the
\* target calendar and the stored tokens are as they were before the record,
\* and mainSyncFunction goes on where it would after a record that was
\* applied: at the next record of the page, or past the page at the next
\* request or at the end of the loop; and the source after one whose pass
\* met an error is still begun.
C22_Containment ==
  /\ [][(pc = "items" /\ thrown' # {} /\ pc' # "idle")
         => /\ lastLog' = ThrowsLog(eventPages.items[itemIdx],
                                    lastLog' # "Error searching for duplicate event")
            /\ target' = target
            /\ tokens' = tokens
            /\ srcIdx' = srcIdx
            /\ eventPages' = eventPages
            /\ IF itemIdx < Len(eventPages.items)
                 THEN /\ pc' = "items"
                      /\ itemIdx' = itemIdx + 1
                 ELSE /\ pc' = IF eventPages.nextPageToken # NoPageToken
                                 THEN "fetch" ELSE "save"
                      /\ pageToken' = eventPages.nextPageToken
                      /\ pagesFlushed' = pagesFlushed + 1]_vars
  /\ [][(pc = "next" /\ ~passClean /\ srcIdx < NumSources /\ thrown' = {})
         => pc' = "source" /\ srcIdx' = srcIdx + 1]_vars

\* the write for the first record of a page has thrown and the second
\* record is in hand
C22_Witness ==
  /\ pc = "items"
  /\ itemIdx = 2
  /\ thrown = {"Service invoked too many times"}
  /\ lastLog = "Error inserting/updating event"
  /\ target = passStart

\* the events of T that mirror the source event of that id and were last
\* written for a source other than the one in hand (the sources have
\* distinct colours)
WrittenForAnother(T, id, source) ==
  {e \in FindByTag(T, id) : e.colorId # source.colorId}

\* C23 (Cross-source id collision): the tag is the source event id alone.
\* When a record arrives whose id tags a target event last written for
\* another source and the helper's calls answer: an active record is an
\* update of that one event (same target id, no event added), which then
\* carries the title, prefix and colour of the source in hand; a cancelled
\* record deletes that event, whatever the source it was written for.
C23_Collision ==
  [][(/\ pc = "items"
      /\ WrittenForAnother(target, eventPages.items[itemIdx].id,
                           SOURCE_CALENDARS[srcIdx]) # {}
      /\ thrown' = {})
     => LET ev == eventPages.items[itemIdx]
            source == SOURCE_CALENDARS[srcIdx]
            old == WrittenForAnother(target, ev.id, source)
        IN  IF ev.status = "cancelled"
              THEN /\ lastLog' = "Deleted"
                   /\ FindByTag(target', ev.id) = {}
                   /\ target' = target \ old
              ELSE /\ lastLog' = "Event updated"
                   /\ Cardinality(target') = Cardinality(target)
                   /\ \A e \in old :
                        FindByTag(target', ev.id) =
                          {[id |-> e.id, tag |-> ev.id,
                            summary |-> TitleFor(ev.summary, source.prefix, source.name),
                            description |-> ev.description,
                            start |-> StartFor(ev.start),
                            colorId |-> source.colorId]}]_vars

\* source 1, in the pass from token 2, has deleted the event of id c that
\* the target held with the prefix and colour of source 3
C23_Witness ==
  /\ srcIdx = 1
  /\ syncToken = 2
  /\ lastLog = "Deleted"
  /\ FindByTag(target, "c") = {}
  /\ Cardinality(FindByTag(passStart, "c")) = 1
  /\ \A e \in FindByTag(passStart, "c") :
       /\ e.colorId = SOURCE_CALENDARS[3].colorId
       /\ e.summary = <<SOURCE_CALENDARS[3].prefix, W("Gym")>>

=============================================================================
